---- MODULE Spec2Model ----
(***************************************************************************)
(* Model of partner-charts-ci (src/main.go): the upstream version filter   *)
(* (filterVersions and its helpers), the chart reconciler (integrateCharts,*)
(* ensureFeaturedAnnotation, writeCharts), the run over the packages       *)
(* (generateChanges), the comparator of package validate (matchHelmCharts, *)
(* compareDirectories), the overlay files (applyOverlayFiles), the         *)
(* packages of one vendor in the shared assets directory                   *)
(* (loadExistingCharts, writeCharts) and the featured commands             *)
(* (addFeaturedChart, removeFeaturedChart, annotate).                      *)
(***************************************************************************)
EXTENDS Integers, Sequences, FiniteSets, TLC

\* ------------------------------------------------------------------ bounds
\* longest upstream version list
MaxUpstream == 2
\* most versions of the chart in index.yaml
MaxStored == 2
\* most entries of UpstreamYaml.TrackVersions
MaxTracked == 2
\* most chart versions of the package in the assets directory
MaxExisting == 2
\* most chart versions fetched in one run of ApplyUpdates
MaxNew == 2
\* the different contents a compared file may have
MaxBytes == 2
\* most packages in one run of generateChanges
MaxPackages == 2
MaxFiles == 2
MaxVendorVersions == 2

\* ------------------------------------------------------------ version strings
\* A version string (repo.ChartVersion.Version, chart.Metadata.Version):
\*   ok  - semver.NewVersion parses it
\*   v   - written with the optional leading "v", which semver accepts and
\*         Version.String() does not print
\*   pre - it carries a prerelease qualifier
\*   rev - the package revision that conform.GeneratePackageVersion added
\*         (0: none)
VerStr(maj, min, pat) ==
    [ok |-> TRUE, v |-> FALSE, maj |-> maj, min |-> min, pat |-> pat,
     pre |-> FALSE, rev |-> 0]

\* a string semver.NewVersion rejects
BadStr == [ok |-> FALSE, v |-> FALSE, maj |-> 0, min |-> 0, pat |-> 0,
           pre |-> FALSE, rev |-> 0]

\* the version strings an upstream repository offers in the model
UpstreamStrings ==
    { VerStr(2, 0, 0),
      [VerStr(2, 0, 0) EXCEPT !.pre = TRUE],
      VerStr(1, 1, 1),
      [VerStr(1, 1, 0) EXCEPT !.v = TRUE],
      VerStr(1, 0, 0),
      BadStr }

\* the version strings index.yaml holds for the chart in the model
StoredStrings ==
    { VerStr(2, 0, 0),
      VerStr(1, 1, 1),
      [VerStr(1, 1, 0) EXCEPT !.rev = 1],
      VerStr(1, 1, 0),
      VerStr(1, 0, 0) }

\* the release lines upstream.yaml may track (TrackVersions entries)
TrackedStrings == { VerStr(1, 1, 0), VerStr(2, 0, 0) }

\* the values of UpstreamYaml.Fetch
FetchStrings == {"", "latest", "newer", "all", "Latest", "Newer", "ALL"}

\* semver.NewVersion: the error it returns
NewVersionErr(s) == ~s.ok

\* semver.NewVersion: the version it returns when there is no error
NewVersion(s) ==
    [maj |-> s.maj, min |-> s.min, pat |-> s.pat, pre |-> s.pre, rev |-> s.rev]

\* (*semver.Version).String: the canonical text, without the leading "v"
String(sv) ==
    [ok |-> TRUE, v |-> FALSE, maj |-> sv.maj, min |-> sv.min, pat |-> sv.pat,
     pre |-> sv.pre, rev |-> sv.rev]

\* (*semver.Version).Compare on major.minor.patch and the prerelease
Compare(a, b) ==
    IF a.maj # b.maj THEN (IF a.maj > b.maj THEN 1 ELSE -1)
    ELSE IF a.min # b.min THEN (IF a.min > b.min THEN 1 ELSE -1)
    ELSE IF a.pat # b.pat THEN (IF a.pat > b.pat THEN 1 ELSE -1)
    ELSE IF a.pre # b.pre THEN (IF b.pre THEN 1 ELSE -1)
    ELSE 0

\* (*semver.Version).GreaterThan
GreaterThan(a, b) == Compare(a, b) > 0

\* strings.ToLower on the fetch strings
ToLower(s) ==
    CASE s = "Latest" -> "latest"
      [] s = "Newer" -> "newer"
      [] s = "ALL" -> "all"
      [] OTHER -> s

\* conform.StripPackageVersion: the stored version without its revision
StripPackageVersion(s) == [s EXCEPT !.rev = 0]

\* ------------------------------------------------------------ version filter
\* stripPreRelease without the test of line 430
stripPreRelease_KeepsPrerelease(versions) ==
    SelectSeq(versions, LAMBDA version : ~NewVersionErr(version))

\* stripPreRelease: the versions that parse and carry no prerelease, in order
stripPreRelease(versions) ==
    SelectSeq(versions, LAMBDA version :
        ~NewVersionErr(version) /\ ~NewVersion(version).pre)

\* TrackedLoop leaving the loop at any version off the tracked line, newer
\* ones too
RECURSIVE TrackedLoop_StopsAtAnyOther(_, _, _, _)
TrackedLoop_StopsAtAnyOther(upstreamVersions, trackedVersion, i, versionList) ==
    IF i > Len(upstreamVersions) THEN versionList
    ELSE LET version == upstreamVersions[i]
             semVer == NewVersion(version)
             trackedSemVer == NewVersion(trackedVersion)
         IN  IF NewVersionErr(version) \/ NewVersionErr(trackedVersion)
             THEN TrackedLoop_StopsAtAnyOther(upstreamVersions, trackedVersion, i + 1,
                                              versionList)
             ELSE IF semVer.maj = trackedSemVer.maj /\ semVer.min = trackedSemVer.min
             THEN TrackedLoop_StopsAtAnyOther(upstreamVersions, trackedVersion, i + 1,
                                              Append(versionList, version))
             ELSE versionList

\* collectTrackedVersions, the inner loop (lines 338-356) from position i on:
\* versionList is the bucket collected so far for trackedVersion
RECURSIVE TrackedLoop(_, _, _, _)
TrackedLoop(upstreamVersions, trackedVersion, i, versionList) ==
    IF i > Len(upstreamVersions) THEN versionList
    ELSE LET version == upstreamVersions[i]
             semVer == NewVersion(version)
             trackedSemVer == NewVersion(trackedVersion)
         IN  IF NewVersionErr(version) \/ NewVersionErr(trackedVersion)
             THEN TrackedLoop(upstreamVersions, trackedVersion, i + 1, versionList)
             ELSE IF semVer.maj = trackedSemVer.maj /\ semVer.min = trackedSemVer.min
             THEN TrackedLoop(upstreamVersions, trackedVersion, i + 1,
                              Append(versionList, version))
             ELSE IF \/ semVer.maj < trackedSemVer.maj
                     \/ (semVer.maj = trackedSemVer.maj /\ semVer.min < trackedSemVer.min)
             THEN versionList
             ELSE TrackedLoop(upstreamVersions, trackedVersion, i + 1, versionList)

\* collectTrackedVersions: the map from each tracked string to its bucket
collectTrackedVersions(upstreamVersions, tracked) ==
    [trackedVersion \in {tracked[k] : k \in 1..Len(tracked)} |->
        TrackedLoop(upstreamVersions, trackedVersion, 1, <<>>)]

\* IsStored without the comparison of the stripped version (lines 378-381)
IsStored_RawOnly(version, storedVersions) ==
    \E k \in 1..Len(storedVersions) :
        storedVersions[k] = String(NewVersion(version))

\* collectNonStoredVersions, lines 370-383: whether the scan of storedVersions
\* finds the version, as it is or with the revision stripped
IsStored(version, storedVersions) ==
    \E k \in 1..Len(storedVersions) :
        \/ storedVersions[k] = String(NewVersion(version))
        \/ StripPackageVersion(storedVersions[k]) = String(NewVersion(version))

\* collectNonStoredVersions, line 384: the first version is stored and the
\* fetch string, lower-cased, is "" or "latest"
LatestAlreadyStored(stored, i, fetch) ==
    stored /\ i = 1 /\ (ToLower(fetch) = "" \/ ToLower(fetch) = "latest")

\* SelectsNewer comparing with the last stored version, not the first
SelectsNewer_AgainstLast(version, storedVersions) ==
    IF NewVersionErr(version) THEN FALSE
    ELSE IF Len(storedVersions) > 0
    THEN LET strippedStoredLatest ==
                 StripPackageVersion(storedVersions[Len(storedVersions)])
         IN  IF NewVersionErr(strippedStoredLatest) THEN FALSE
             ELSE GreaterThan(NewVersion(version), NewVersion(strippedStoredLatest))
    ELSE TRUE

\* SelectsNewer without the comparison with the stored version (line 403)
SelectsNewer_IgnoresStored(version, storedVersions) ==
    ~NewVersionErr(version)

\* collectNonStoredVersions, lines 390-409: what the "newer" branch does with
\* a version that is not stored: whether it appends it
SelectsNewer(version, storedVersions) ==
    IF NewVersionErr(version) THEN FALSE
    ELSE IF Len(storedVersions) > 0
    THEN LET strippedStoredLatest == StripPackageVersion(storedVersions[1])
         IN  IF NewVersionErr(strippedStoredLatest) THEN FALSE
             ELSE GreaterThan(NewVersion(version), NewVersion(strippedStoredLatest))
    ELSE TRUE

\* collectNonStoredVersions, the loop (lines 365-417) from position i on.
\* panic: parsedVersion is nil when the version does not parse, and
\* parsedVersion.String() is reached as soon as there is a stored version.
RECURSIVE CollectLoop(_, _, _, _, _)
CollectLoop(versions, storedVersions, fetch, i, nonStoredVersions) ==
    IF i > Len(versions) THEN [panic |-> FALSE, versions |-> nonStoredVersions]
    ELSE IF NewVersionErr(versions[i]) /\ Len(storedVersions) > 0
    THEN [panic |-> TRUE, versions |-> <<>>]
    ELSE LET version == versions[i]
             stored == IsStored(version, storedVersions)
             continue == CollectLoop(versions, storedVersions, fetch, i + 1,
                                     nonStoredVersions)
             appended == CollectLoop(versions, storedVersions, fetch, i + 1,
                                     Append(nonStoredVersions, version))
         IN  IF LatestAlreadyStored(stored, i, fetch)
             THEN [panic |-> FALSE, versions |-> nonStoredVersions]
             ELSE IF stored THEN continue
             ELSE IF fetch = ToLower("newer")
             THEN (IF SelectsNewer(version, storedVersions) THEN appended
                   ELSE continue)
             ELSE IF fetch = ToLower("all") THEN appended
             ELSE [panic |-> FALSE,
                   versions |-> Append(nonStoredVersions, version)]

\* collectNonStoredVersions
collectNonStoredVersions(versions, storedVersions, fetch) ==
    CollectLoop(versions, storedVersions, fetch, 1, <<>>)

\* getStoredVersions: index.yaml's entries for the chart, or the load error
getStoredVersions(index) ==
    IF index.ok THEN [versions |-> index.entries, err |-> FALSE]
    ELSE [versions |-> <<>>, err |-> TRUE]

\* FilterTracked assigning each bucket's selection instead of appending it
RECURSIVE FilterTracked_Overwrites(_, _, _, _, _, _)
FilterTracked_Overwrites(allTrackedVersions, storedTrackedVersions, tracked, fetch, k, filteredVersions) ==
    IF k > Len(tracked) THEN [panic |-> FALSE, versions |-> filteredVersions]
    ELSE LET nonStoredVersions ==
                 collectNonStoredVersions(allTrackedVersions[tracked[k]],
                                          storedTrackedVersions[tracked[k]], fetch)
         IN  IF nonStoredVersions.panic THEN nonStoredVersions
             ELSE FilterTracked_Overwrites(allTrackedVersions, storedTrackedVersions,
                                           tracked, fetch, k + 1,
                                           nonStoredVersions.versions)

\* filterVersions, lines 485-488: the tracked lines from position k on, each
\* bucket's selection appended to filteredVersions
RECURSIVE FilterTracked(_, _, _, _, _, _)
FilterTracked(allTrackedVersions, storedTrackedVersions, tracked, fetch, k, filteredVersions) ==
    IF k > Len(tracked) THEN [panic |-> FALSE, versions |-> filteredVersions]
    ELSE LET nonStoredVersions ==
                 collectNonStoredVersions(allTrackedVersions[tracked[k]],
                                          storedTrackedVersions[tracked[k]], fetch)
         IN  IF nonStoredVersions.panic THEN nonStoredVersions
             ELSE FilterTracked(allTrackedVersions, storedTrackedVersions, tracked,
                                fetch, k + 1,
                                filteredVersions \o nonStoredVersions.versions)

\* filterVersions: the fetch list and the error. err is "nil", "NoVersions"
\* (line 474), "LoadIndex" (line 483) or "panic" (upstreamVersions[0] of an
\* empty list at line 464). checkNewerUntracked only logs.
filterVersions(upstreamVersions, fetch, tracked, index) ==
    IF Len(upstreamVersions) = 0 THEN [versions |-> <<>>, err |-> "panic"]
    ELSE LET stripped == stripPreRelease(upstreamVersions)
             allStoredVersions == getStoredVersions(index)
         IN  IF Len(stripped) = 0 THEN [versions |-> <<>>, err |-> "NoVersions"]
             ELSE IF Len(tracked) > 0
             THEN LET allTrackedVersions == collectTrackedVersions(stripped, tracked)
                      storedTrackedVersions ==
                          collectTrackedVersions(allStoredVersions.versions, tracked)
                      filtered == FilterTracked(allTrackedVersions,
                                                storedTrackedVersions, tracked,
                                                fetch, 1, <<>>)
                  IN  IF allStoredVersions.err
                      THEN [versions |-> <<>>, err |-> "LoadIndex"]
                      ELSE IF filtered.panic THEN [versions |-> <<>>, err |-> "panic"]
                      ELSE [versions |-> filtered.versions, err |-> "nil"]
             ELSE LET filtered == collectNonStoredVersions(stripped,
                                      allStoredVersions.versions, fetch)
                  IN  IF filtered.panic THEN [versions |-> <<>>, err |-> "panic"]
                      ELSE [versions |-> filtered.versions, err |-> "nil"]

\* ------------------------------------------------------------------- state
VARIABLES
    upstreamVersions,   \* SourceMetadata.Versions, as fetcher.FetchUpstream gave them
    fetch,              \* UpstreamYaml.Fetch
    tracked,            \* UpstreamYaml.TrackVersions
    indexYaml,          \* index.yaml: whether it loads, and the chart's entries
    fetchVersions,      \* what filterVersions returned: the fetch list and the error
    pc,                 \* where the run is
    disk,               \* assets/<vendor>/<name>-<version>.tgz and charts/<vendor>/<name>/<version>
    fetched,            \* the charts the fetcher returns for FetchVersions, in order
    existingCharts,     \* ApplyUpdates: the wrappers of the stored charts
    newCharts,          \* ApplyUpdates: the wrappers of the fetched charts
    writes,             \* the storage writes made so far
    upstreamPath,       \* validate: the reference tree or archive
    updatePath,         \* validate: the candidate tree or archive
    skipDirs,           \* validate: the relative directories left out
    comparison,         \* validate: what the comparison returned
    packageWrappers,    \* generateChanges: the packages listPackageWrappers found
    loopIndex,          \* generateChanges: the position of the running loop
    packageList,        \* generateChanges: the packages with versions to fetch
    skippedList,        \* generateChanges: the packages ApplyUpdates failed for
    helmChart,          \* applyOverlayFiles: the chart, its Files
    overlayFiles        \* applyOverlayFiles: relative path -> contents

\* the variables of the version filter
filterVars == <<upstreamVersions, fetch, tracked, indexYaml, fetchVersions>>

\* the variables of the reconciler
reconcileVars == <<disk, fetched, existingCharts, newCharts, writes>>

\* the variables of the comparator
validateVars == <<upstreamPath, updatePath, skipDirs, comparison>>

\* the variables of a run over the packages
runVars == <<packageWrappers, loopIndex, packageList, skippedList>>
overlayVars == <<helmChart, overlayFiles>>

vars == <<upstreamVersions, fetch, tracked, indexYaml, fetchVersions, pc,
          disk, fetched, existingCharts, newCharts, writes,
          upstreamPath, updatePath, skipDirs, comparison,
          packageWrappers, loopIndex, packageList, skippedList,
          helmChart, overlayFiles>>

\* all sequences over S of length at most n
SeqsUpTo(S, n) == UNION {[1..k -> S] : k \in 0..n}

\* the order Compare gives, then the package revision: how the raw strings of
\* two stored versions of one upstream version sort
NewerStored(a, b) ==
    \/ Compare(NewVersion(a), NewVersion(b)) > 0
    \/ (Compare(NewVersion(a), NewVersion(b)) = 0 /\ a.rev > b.rev)

\* an upstream list as the fetcher hands it over: newest first among the
\* versions that parse (repeats allowed, unparsable strings anywhere)
UpstreamSorted(versions) ==
    \A i, j \in 1..Len(versions) :
        (i < j /\ versions[i].ok /\ versions[j].ok)
            => Compare(NewVersion(versions[i]), NewVersion(versions[j])) >= 0

\* the chart's entries as writeIndex leaves them (SortEntries, line 916):
\* newest first, no version twice
StoredSorted(entries) ==
    \A i, j \in 1..Len(entries) : i < j => NewerStored(entries[i], entries[j])

\* the upstream lists of the model
UpstreamLists ==
    {versions \in SeqsUpTo(UpstreamStrings, MaxUpstream) : UpstreamSorted(versions)}

\* the states of index.yaml in the model
IndexFiles ==
    {[ok |-> FALSE, entries |-> <<>>]} \cup
    {[ok |-> TRUE, entries |-> entries] :
        entries \in {e \in SeqsUpTo(StoredStrings, MaxStored) : StoredSorted(e)}}

\* no call of filterVersions yet
NoResult == [versions |-> <<>>, err |-> "none"]

\* nothing stored, nothing fetched, nothing written
NoFile == [file |-> FALSE]
NoWrites == [wiped |-> FALSE, saved |-> {}, unpacked |-> {}, icons |-> {}]
ReconcilerIdle ==
    /\ disk = [assets |-> <<>>, charts |-> <<>>]
    /\ fetched = <<>>
    /\ existingCharts = <<>>
    /\ newCharts = <<>>
    /\ writes = NoWrites

\* the comparator is not in use
ValidatorIdle ==
    /\ upstreamPath = <<>>
    /\ updatePath = <<>>
    /\ skipDirs = {}
    /\ comparison = <<>>

\* no run over the packages is under way
RunIdle ==
    /\ packageWrappers = <<>>
    /\ loopIndex = 0
    /\ packageList = <<>>
    /\ skippedList = <<>>

\* applyOverlayFiles is not in use
OverlayIdle ==
    /\ helmChart = [Files |-> <<>>]
    /\ overlayFiles = <<>>

Init ==
    /\ upstreamVersions \in UpstreamLists
    /\ fetch \in FetchStrings
    /\ tracked \in SeqsUpTo(TrackedStrings, MaxTracked)
    /\ indexYaml \in IndexFiles
    /\ fetchVersions = NoResult
    /\ pc = "populate"
    /\ ReconcilerIdle
    /\ ValidatorIdle
    /\ RunIdle
    /\ OverlayIdle

\* PackageWrapper.Populate, lines 143-150: the call of filterVersions
Populate ==
    /\ pc = "populate"
    /\ fetchVersions' = filterVersions(upstreamVersions, fetch, tracked, indexYaml)
    /\ pc' = "populated"
    /\ UNCHANGED <<upstreamVersions, fetch, tracked, indexYaml>>
    /\ UNCHANGED reconcileVars
    /\ UNCHANGED validateVars
    /\ UNCHANGED runVars
    /\ UNCHANGED overlayVars

Next == Populate

Spec == Init /\ [][Next]_vars

\* ------------------------------------------- collectNonStoredVersions alone
\* The function applied to any pair of lists, in any order: upstreamVersions
\* is its versions argument, indexYaml.entries its storedVersions argument.
InitCollect ==
    /\ upstreamVersions \in SeqsUpTo(UpstreamStrings, MaxUpstream)
    /\ fetch \in FetchStrings
    /\ tracked = <<>>
    /\ indexYaml \in {[ok |-> TRUE, entries |-> entries] :
                        entries \in SeqsUpTo(StoredStrings, MaxStored)}
    /\ fetchVersions = NoResult
    /\ pc = "collect"
    /\ ReconcilerIdle
    /\ ValidatorIdle
    /\ RunIdle
    /\ OverlayIdle

\* one call of collectNonStoredVersions
Collect ==
    /\ pc = "collect"
    /\ LET nonStoredVersions ==
               collectNonStoredVersions(upstreamVersions, indexYaml.entries, fetch)
       IN  fetchVersions' =
               [versions |-> nonStoredVersions.versions,
                err |-> IF nonStoredVersions.panic THEN "panic" ELSE "nil"]
    /\ pc' = "collected"
    /\ UNCHANGED <<upstreamVersions, fetch, tracked, indexYaml>>
    /\ UNCHANGED reconcileVars
    /\ UNCHANGED validateVars
    /\ UNCHANGED runVars
    /\ UNCHANGED overlayVars

NextCollect == Collect

SpecCollect == InitCollect /\ [][NextCollect]_vars

\* ------------------------------------------ filterVersions on malformed input
\* the entries of a list that semver.NewVersion parses, in order
WellFormed(versions) == SelectSeq(versions, LAMBDA version : ~NewVersionErr(version))

\* the chart's entries in an index.yaml that also holds version strings
\* semver.NewVersion rejects: those that parse are in the order SortEntries
\* leaves them, the others are anywhere
IndexFilesWithMalformed ==
    {[ok |-> TRUE, entries |-> entries] :
        entries \in {e \in SeqsUpTo(StoredStrings \cup {BadStr}, MaxStored) :
                        StoredSorted(WellFormed(e))}}

InitMalformed ==
    /\ upstreamVersions \in UpstreamLists
    /\ fetch \in FetchStrings
    /\ tracked \in SeqsUpTo(TrackedStrings, MaxTracked)
    /\ indexYaml \in IndexFilesWithMalformed
    /\ fetchVersions = NoResult
    /\ pc = "populate"
    /\ ReconcilerIdle
    /\ ValidatorIdle
    /\ RunIdle
    /\ OverlayIdle

NextMalformed == Populate

SpecMalformed == InitMalformed /\ [][NextMalformed]_vars

\* filterVersions against an index.yaml whose entries are in any order
IndexFilesAnyOrder ==
    {[ok |-> TRUE, entries |-> entries] :
        entries \in SeqsUpTo(StoredStrings, MaxStored)}

\* a fetch string for each way through lines 384, 389 and 410: the default,
\* the three modes, and a mode in another letter case
FetchModes == {"", "latest", "newer", "all", "Newer"}

InitAnyOrder ==
    /\ upstreamVersions \in UpstreamLists
    /\ fetch \in FetchModes
    /\ tracked \in SeqsUpTo(TrackedStrings, MaxTracked)
    /\ indexYaml \in IndexFilesAnyOrder
    /\ fetchVersions = NoResult
    /\ pc = "populate"
    /\ ReconcilerIdle
    /\ ValidatorIdle
    /\ RunIdle
    /\ OverlayIdle

NextAnyOrder == Populate

SpecAnyOrder == InitAnyOrder /\ [][NextAnyOrder]_vars

\* --------------------------------------------- collectTrackedVersions alone
\* The function applied to any version list, in any order, and any tracked
\* lines; fetchVersions.versions holds the map it returns.
InitTracked ==
    /\ upstreamVersions \in SeqsUpTo(UpstreamStrings, MaxUpstream)
    /\ fetch = ""
    /\ tracked \in SeqsUpTo(TrackedStrings, MaxTracked)
    /\ indexYaml = [ok |-> TRUE, entries |-> <<>>]
    /\ fetchVersions = NoResult
    /\ pc = "track"
    /\ ReconcilerIdle
    /\ ValidatorIdle
    /\ RunIdle
    /\ OverlayIdle

\* one call of collectTrackedVersions
CollectTracked ==
    /\ pc = "track"
    /\ fetchVersions' = [versions |-> collectTrackedVersions(upstreamVersions, tracked),
                         err |-> "nil"]
    /\ pc' = "tracked"
    /\ UNCHANGED <<upstreamVersions, fetch, tracked, indexYaml>>
    /\ UNCHANGED <<reconcileVars, validateVars, runVars>>
    /\ UNCHANGED overlayVars

NextTracked == CollectTracked

SpecTracked == InitTracked /\ [][NextTracked]_vars

\* -------------------------------------------------------------- reconciler
\* The chart versions of one package, as numbers: a greater number is a newer
\* version. The stored ones are 1..MaxExisting, the ones upstream offers
\* beyond them come after.
ExistingVersions == 1..MaxExisting
NewVersions == (MaxExisting + 1)..(MaxExisting + MaxNew)
ChartVersions == 1..(MaxExisting + MaxNew)

\* Metadata.Annotations[annotationFeatured] as the lookup "val, ok :=" of
\* line 755 sees it: has is ok, val is the value ("" when absent)
NoAnnotation == [has |-> FALSE, val |-> ""]
Annotation(value) == [has |-> TRUE, val |-> value]

\* the featured annotations a stored chart may carry in the model
StoredAnnotations == {NoAnnotation, Annotation(""), Annotation("1"), Annotation("2")}

\* the featured annotations a chart may arrive with from upstream
UpstreamAnnotations == {NoAnnotation, Annotation("1")}

\* a chart file on disk: the tgz of a version, or its unpacked directory
File(featured) == [file |-> TRUE, featured |-> featured]

\* NewChartWrapper
NewChartWrapper(version, featured) ==
    [version |-> version, featured |-> featured, Modified |-> FALSE]

\* conform.AnnotateChart(chart, annotationFeatured, value, override): the
\* annotation afterwards and whether it changed
AnnotateChart(featured, value, override) ==
    IF (~featured.has \/ override) /\ featured.val # value
    THEN [featured |-> Annotation(value), modified |-> TRUE]
    ELSE [featured |-> featured, modified |-> FALSE]

\* conform.DeannotateChart(chart, annotationFeatured, value): the annotation
\* afterwards and whether it was removed; value "" removes whatever the value
DeannotateChart(featured, value) ==
    IF featured.has /\ (value = "" \/ featured.val = value)
    THEN [featured |-> NoAnnotation, modified |-> TRUE]
    ELSE [featured |-> featured, modified |-> FALSE]

\* loadExistingCharts, lines 589-606, for the versions v and below: a wrapper
\* for every tgz of the package, newest first as the sort of lines 607-611
\* leaves them
RECURSIVE LoadFrom(_, _)
LoadFrom(assets, v) ==
    IF v = 0 THEN <<>>
    ELSE (IF assets[v].file THEN <<NewChartWrapper(v, assets[v].featured)>>
          ELSE <<>>) \o LoadFrom(assets, v - 1)

\* loadExistingCharts
loadExistingCharts(assets) == LoadFrom(assets, Cardinality(DOMAIN assets))

\* integrateCharts, lines 626-638, for one new chart: overlay files, metadata
\* overrides, the annotations of addAnnotations (annotationFeatured is not
\* among them) and the icon leave the featured annotation as upstream set it;
\* line 637 marks the chart modified
IntegrateNewChart(newChart) == [newChart EXCEPT !.Modified = TRUE]

\* ensureFeaturedAnnotation, lines 753-763: the scan of the existing charts
\* from position i on, featuredAnnotationValue being the value found so far
RECURSIVE FeaturedScan(_, _, _)
FeaturedScan(charts, i, featuredAnnotationValue) ==
    IF i > Len(charts) THEN [conflict |-> FALSE, value |-> featuredAnnotationValue]
    ELSE IF ~charts[i].featured.has
    THEN FeaturedScan(charts, i + 1, featuredAnnotationValue)
    ELSE IF featuredAnnotationValue # "" /\ featuredAnnotationValue # charts[i].featured.val
    THEN [conflict |-> TRUE, value |-> featuredAnnotationValue]
    ELSE FeaturedScan(charts, i + 1, charts[i].featured.val)

\* ensureFeaturedAnnotation, lines 778-781: the value set on the last new chart
AnnotateLast(charts, value) ==
    LET last == charts[Len(charts)]
        annotated == AnnotateChart(last.featured, value, TRUE)
    IN  [charts EXCEPT ![Len(charts)] =
            [last EXCEPT !.featured = annotated.featured,
                         !.Modified = last.Modified \/ annotated.modified]]

\* ensureFeaturedAnnotation, lines 786-790: the annotation removed from the
\* existing charts
DeannotateAll(charts) ==
    [k \in 1..Len(charts) |->
        LET removed == DeannotateChart(charts[k].featured, "")
        IN  [charts[k] EXCEPT !.featured = removed.featured,
                              !.Modified = charts[k].Modified \/ removed.modified]]

\* ensureFeaturedAnnotation: err is "nil", "FeaturedConflict" (line 760) or
\* "panic" (newCharts[len(newCharts)-1] of an empty slice at line 778)
ensureFeaturedAnnotation(existing, new) ==
    LET scan == FeaturedScan(existing, 1, "")
    IN  IF scan.conflict
        THEN [err |-> "FeaturedConflict", existing |-> existing, new |-> new]
        ELSE IF scan.value = ""
        THEN [err |-> "nil", existing |-> existing, new |-> new]
        ELSE IF Len(new) = 0
        THEN [err |-> "panic", existing |-> existing, new |-> new]
        ELSE [err |-> "nil", existing |-> DeannotateAll(existing),
              new |-> AnnotateLast(new, scan.value)]

\* integrateCharts with the loop of lines 626-638 running over the existing
\* charts as well as the new ones
integrateCharts_EveryChart(existing, new) ==
    ensureFeaturedAnnotation(
        [k \in 1..Len(existing) |-> IntegrateNewChart(existing[k])],
        [k \in 1..Len(new) |-> IntegrateNewChart(new[k])])

\* integrateCharts
integrateCharts(existing, new) ==
    ensureFeaturedAnnotation(existing,
        [k \in 1..Len(new) |-> IntegrateNewChart(new[k])])

\* writeCharts, lines 554-572, from position i on: the tgz is saved when the
\* chart is modified or has no tgz, and unpacked from the tgz on disk when the
\* chart is modified or has no directory
RECURSIVE WriteLoop(_, _, _, _)
WriteLoop(chartWrappers, i, d, w) ==
    IF i > Len(chartWrappers) THEN [disk |-> d, writes |-> w]
    ELSE LET chartWrapper == chartWrappers[i]
             version == chartWrapper.version
             tgzFileExists == d.assets[version].file
             save == chartWrapper.Modified \/ ~tgzFileExists
             assets == IF save
                       THEN [d.assets EXCEPT ![version] = File(chartWrapper.featured)]
                       ELSE d.assets
             chartsPathExists == d.charts[version].file
             gunzip == chartWrapper.Modified \/ ~chartsPathExists
             charts == IF gunzip
                       THEN [d.charts EXCEPT ![version] = assets[version]]
                       ELSE d.charts
         IN  WriteLoop(chartWrappers, i + 1,
                       [assets |-> assets, charts |-> charts],
                       [w EXCEPT
                        !.saved = IF save THEN w.saved \cup {version} ELSE w.saved,
                        !.unpacked = IF gunzip THEN w.unpacked \cup {version}
                                     ELSE w.unpacked])

\* writeCharts: os.RemoveAll of the package's charts directory (line 550),
\* then the loop over the charts
writeCharts(chartWrappers, d, w) ==
    WriteLoop(chartWrappers, 1,
              [assets |-> d.assets, charts |-> [v \in DOMAIN d.charts |-> NoFile]],
              [w EXCEPT !.wiped = \E v \in DOMAIN d.charts : d.charts[v].file])

\* the stored charts of the package before a run: a tgz and its unpacked
\* directory for some of the existing versions, none for the new ones
StoredCharts ==
    {assets \in [ChartVersions -> {NoFile} \cup {File(a) : a \in StoredAnnotations}] :
        \A v \in NewVersions : assets[v] = NoFile}

\* the charts the fetcher returns: new versions, none twice, in any order.
\* meets is what ApplyUpdates meets when it works on the chart: "nil" when
\* every step succeeds and the icon is already in the local icons directory
FetchedCharts ==
    {charts \in SeqsUpTo([version : NewVersions, featured : UpstreamAnnotations,
                          meets : {"nil"}], MaxNew) :
        \A i, j \in 1..Len(charts) : i # j => charts[i].version # charts[j].version}

\* what ApplyUpdates may meet on a fetched chart:
\*   loadError     - fetcher.LoadChartFromUrl / LoadChartFromGit fails (line 514)
\*   annotateError - addAnnotations fails (line 631)
\*   iconError     - icons.EnsureIconDownloaded fails (line 634)
\*   iconDownload  - the icon is not local yet: ensureIcon downloads it to
\*                   the local icons directory
Meets == {"nil", "loadError", "annotateError", "iconError", "iconDownload"}

\* the fetched charts of a run in which steps may fail
FetchedChartsFailing ==
    {charts \in SeqsUpTo([version : NewVersions, featured : {NoAnnotation},
                          meets : Meets], MaxNew) :
        \A i, j \in 1..Len(charts) : i # j => charts[i].version # charts[j].version}

\* the first position of the list whose chart meets one of the outcomes, or
\* one past the end
FirstMeeting(charts, outcomes) ==
    LET at == {k \in 1..Len(charts) : charts[k].meets \in outcomes}
    IN  IF at = {} THEN Len(charts) + 1
        ELSE CHOOSE k \in at : \A j \in at : k <= j

\* integrateCharts, lines 626-638 over the fetched charts: whether a step
\* returns an error, and the icons ensureIcon has downloaded by then (the
\* charts before the failing one, and the failing one too when its icon was
\* downloaded, which no chart of the model combines with an error)
IntegrateSteps(charts) ==
    LET stop == FirstMeeting(charts, {"annotateError", "iconError"})
    IN  [err |-> stop <= Len(charts),
         done |-> stop - 1,
         icons |-> {charts[k].version : k \in {j \in 1..(stop - 1) :
                                                  charts[j].meets = "iconDownload"}}]

InitReconcile ==
    /\ upstreamVersions = <<>>
    /\ fetch = ""
    /\ tracked = <<>>
    /\ indexYaml = [ok |-> TRUE, entries |-> <<>>]
    /\ fetchVersions = NoResult
    /\ pc = "apply"
    /\ \E assets \in StoredCharts : disk = [assets |-> assets, charts |-> assets]
    /\ fetched \in FetchedCharts
    /\ existingCharts = <<>>
    /\ newCharts = <<>>
    /\ writes = NoWrites
    /\ ValidatorIdle
    /\ RunIdle
    /\ OverlayIdle

\* ApplyUpdates, lines 499-519: the stored charts loaded, the fetched ones wrapped
LoadCharts ==
    /\ pc = "apply"
    /\ existingCharts' = loadExistingCharts(disk.assets)
    /\ LET stop == FirstMeeting(fetched, {"loadError"})
       IN  /\ newCharts' = [k \in 1..(stop - 1) |->
                               NewChartWrapper(fetched[k].version, fetched[k].featured)]
           /\ pc' = IF stop <= Len(fetched) THEN "fetchfailed" ELSE "loaded"
    /\ UNCHANGED <<disk, fetched, writes>>
    /\ UNCHANGED filterVars
    /\ UNCHANGED validateVars
    /\ UNCHANGED runVars
    /\ UNCHANGED overlayVars

\* ApplyUpdates, lines 521-523: integrateCharts; its error ends the run
IntegrateCharts ==
    /\ pc = "loaded"
    /\ LET steps == IntegrateSteps(fetched)
           done == integrateCharts(existingCharts, newCharts)
       IN  /\ writes' = [writes EXCEPT !.icons = @ \cup steps.icons]
           /\ IF steps.err
              THEN /\ existingCharts' = existingCharts
                   /\ newCharts' = [k \in 1..Len(newCharts) |->
                                       IF k <= steps.done
                                       THEN IntegrateNewChart(newCharts[k])
                                       ELSE newCharts[k]]
                   /\ pc' = "failed"
              ELSE /\ existingCharts' = done.existing
                   /\ newCharts' = done.new
                   /\ pc' = CASE done.err = "nil" -> "integrated"
                              [] done.err = "panic" -> "panic"
                              [] OTHER -> "failed"
    /\ UNCHANGED <<disk, fetched>>
    /\ UNCHANGED filterVars
    /\ UNCHANGED validateVars
    /\ UNCHANGED runVars
    /\ UNCHANGED overlayVars

\* ApplyUpdates, lines 525-530: writeCharts on the existing and the new charts
WriteCharts ==
    /\ pc = "integrated"
    /\ LET done == writeCharts(existingCharts \o newCharts, disk, writes)
       IN  /\ disk' = done.disk
           /\ writes' = done.writes
    /\ pc' = "written"
    /\ UNCHANGED <<fetched, existingCharts, newCharts>>
    /\ UNCHANGED filterVars
    /\ UNCHANGED validateVars
    /\ UNCHANGED runVars
    /\ UNCHANGED overlayVars

NextReconcile == LoadCharts \/ IntegrateCharts \/ WriteCharts

SpecReconcile == InitReconcile /\ [][NextReconcile]_vars

\* ApplyUpdates with steps that may fail
InitApply ==
    /\ upstreamVersions = <<>>
    /\ fetch = ""
    /\ tracked = <<>>
    /\ indexYaml = [ok |-> TRUE, entries |-> <<>>]
    /\ fetchVersions = NoResult
    /\ ValidatorIdle
    /\ RunIdle
    /\ pc = "apply"
    /\ \E assets \in StoredCharts : disk = [assets |-> assets, charts |-> assets]
    /\ fetched \in FetchedChartsFailing
    /\ existingCharts = <<>>
    /\ newCharts = <<>>
    /\ writes = NoWrites
    /\ OverlayIdle

SpecApply == InitApply /\ [][NextReconcile]_vars

\* writeCharts on its own: the chart wrappers a caller may pass, some of the
\* package's versions, none twice, modified or not
ChartWrapperLists ==
    {charts \in SeqsUpTo([version : ChartVersions, featured : {NoAnnotation},
                          Modified : BOOLEAN], MaxExisting) :
        \A i, j \in 1..Len(charts) : i # j => charts[i].version # charts[j].version}

\* the assets and charts directories of the package before a call of
\* writeCharts: any version may have a tgz, an unpacked directory, both or
\* neither (cullCharts, lines 1387-1393, removes the tgz files alone)
StoredFiles == [ChartVersions -> {NoFile, File(NoAnnotation)}]

InitWrite ==
    /\ upstreamVersions = <<>>
    /\ fetch = ""
    /\ tracked = <<>>
    /\ indexYaml = [ok |-> TRUE, entries |-> <<>>]
    /\ fetchVersions = NoResult
    /\ pc = "integrated"
    /\ disk \in [assets : StoredFiles, charts : StoredFiles]
    /\ fetched = <<>>
    /\ existingCharts \in ChartWrapperLists
    /\ newCharts = <<>>
    /\ writes = NoWrites
    /\ ValidatorIdle
    /\ RunIdle
    /\ OverlayIdle

NextWrite == WriteCharts

SpecWrite == InitWrite /\ [][NextWrite]_vars

\* --------------------------------------------------------------- comparator
\* the version filter is not in use
FilterIdle ==
    /\ upstreamVersions = <<>>
    /\ fetch = ""
    /\ tracked = <<>>
    /\ indexYaml = [ok |-> TRUE, entries |-> <<>>]
    /\ fetchVersions = NoResult

\* the annotation keys of a chart in the model: one under the reserved
\* catalog.cattle.io prefix, one outside it
AnnotationKeys == {"catalog.cattle.io/featured", "example.com/owner"}

\* strings.HasPrefix(key, "catalog.cattle.io") on the annotation keys
HasReservedPrefix(key) == key = "catalog.cattle.io/featured"

\* the annotation maps of a chart: some of the keys, each with a value
AnnotationMaps ==
    UNION {[keys -> {"1", "2"}] : keys \in SUBSET AnnotationKeys}

\* a chart archive as matchHelmCharts loads it: the annotations and the
\* deprecated field of Chart.yaml, another field of Chart.yaml, the
\* dependencies, and the bytes of one more file (0: the file is absent)
ChartArchives ==
    [annotations : AnnotationMaps, deprecated : BOOLEAN,
     description : {"a", "b"}, dependencies : {{}, {"dep"}},
     valuesYaml : 0..MaxBytes]

\* StripReserved that removes nothing
StripReserved_KeepsAll(annotations) == annotations

\* matchHelmCharts: the annotations left once those under the reserved
\* prefix are taken out
StripReserved(annotations) ==
    [key \in {k \in DOMAIN annotations : ~HasReservedPrefix(k)} |-> annotations[key]]

\* matchHelmCharts: what of a chart takes part in the comparison
Comparable(chart) ==
    [chart EXCEPT !.annotations = StripReserved(chart.annotations),
                  !.deprecated = FALSE]

\* matchHelmCharts
matchHelmCharts(upstreamChart, updateChart) ==
    Comparable(upstreamChart) = Comparable(updateChart)

InitMatch ==
    /\ FilterIdle
    /\ ReconcilerIdle
    /\ RunIdle
    /\ pc = "match"
    /\ upstreamPath \in ChartArchives
    /\ updatePath \in ChartArchives
    /\ skipDirs = {}
    /\ comparison = <<>>
    /\ OverlayIdle

\* one call of matchHelmCharts
MatchHelmCharts ==
    /\ pc = "match"
    /\ comparison' = [match |-> matchHelmCharts(upstreamPath, updatePath)]
    /\ pc' = "matched"
    /\ UNCHANGED <<upstreamPath, updatePath, skipDirs>>
    /\ UNCHANGED <<filterVars, reconcileVars, runVars>>
    /\ UNCHANGED overlayVars

NextMatch == MatchHelmCharts

SpecMatch == InitMatch /\ [][NextMatch]_vars

\* the relative file paths of a compared tree, as their components, in the
\* order a walk visits them
WalkOrder ==
    << <<"skipped-directory", "sub", "testfile">>,
       <<"skipped-directory", "testfile">>,
       <<"testfile">> >>
RelPaths == {WalkOrder[i] : i \in 1..Len(WalkOrder)}

\* the relative directories of a compared tree
RelDirs == {<<"skipped-directory">>, <<"skipped-directory", "sub">>}

\* a directory tree: whether it exists, and the bytes of each file (0: the
\* file is absent); a tree that does not exist has no file
Trees ==
    {tree \in [exists : BOOLEAN, files : [RelPaths -> 0..MaxBytes]] :
        ~tree.exists => \A path \in RelPaths : tree.files[path] = 0}

\* filepath.Join(root, relativePath)
Join(root, relativePath) == [root |-> root, rel |-> relativePath]

\* Skipped looking at the file's own directory only
Skipped_ParentOnly(relativePath, skip) ==
    SubSeq(relativePath, 1, Len(relativePath) - 1) \in skip

\* compareDirectories: the file lies in a directory whose relative path, or
\* an ancestor of it, is in skipDirs
Skipped(relativePath, skip) ==
    \E n \in 1..(Len(relativePath) - 1) : SubSeq(relativePath, 1, n) \in skip

\* WalkUpstream reporting a removed file under the upstream root
RECURSIVE WalkUpstream_UpstreamRooted(_, _, _, _, _)
WalkUpstream_UpstreamRooted(upstream, update, skip, i, cmp) ==
    IF i > Len(WalkOrder) THEN cmp
    ELSE LET relativePath == WalkOrder[i]
         IN  IF upstream.files[relativePath] = 0 \/ Skipped(relativePath, skip)
             THEN WalkUpstream_UpstreamRooted(upstream, update, skip, i + 1, cmp)
             ELSE IF update.files[relativePath] = 0
             THEN WalkUpstream_UpstreamRooted(upstream, update, skip, i + 1,
                      [cmp EXCEPT !.Removed = Append(@, Join("upstream", relativePath)),
                                  !.checked = @ \cup {relativePath}])
             ELSE IF update.files[relativePath] # upstream.files[relativePath]
             THEN WalkUpstream_UpstreamRooted(upstream, update, skip, i + 1,
                      [cmp EXCEPT !.Modified = Append(@, Join("update", relativePath)),
                                  !.checked = @ \cup {relativePath}])
             ELSE WalkUpstream_UpstreamRooted(upstream, update, skip, i + 1,
                      [cmp EXCEPT !.checked = @ \cup {relativePath}])

\* compareDirectories, the walk of the reference tree from position i on:
\* a file the candidate lacks is removed, one with other bytes is modified
RECURSIVE WalkUpstream(_, _, _, _, _)
WalkUpstream(upstream, update, skip, i, cmp) ==
    IF i > Len(WalkOrder) THEN cmp
    ELSE LET relativePath == WalkOrder[i]
         IN  IF upstream.files[relativePath] = 0 \/ Skipped(relativePath, skip)
             THEN WalkUpstream(upstream, update, skip, i + 1, cmp)
             ELSE IF update.files[relativePath] = 0
             THEN WalkUpstream(upstream, update, skip, i + 1,
                      [cmp EXCEPT !.Removed = Append(@, Join("update", relativePath)),
                                  !.checked = @ \cup {relativePath}])
             ELSE IF update.files[relativePath] # upstream.files[relativePath]
             THEN WalkUpstream(upstream, update, skip, i + 1,
                      [cmp EXCEPT !.Modified = Append(@, Join("update", relativePath)),
                                  !.checked = @ \cup {relativePath}])
             ELSE WalkUpstream(upstream, update, skip, i + 1,
                      [cmp EXCEPT !.checked = @ \cup {relativePath}])

\* WalkUpdate that does not look at the files the first walk has checked
RECURSIVE WalkUpdate_IgnoresChecked(_, _, _, _)
WalkUpdate_IgnoresChecked(update, skip, i, cmp) ==
    IF i > Len(WalkOrder) THEN cmp
    ELSE LET relativePath == WalkOrder[i]
         IN  IF update.files[relativePath] = 0 \/ Skipped(relativePath, skip)
             THEN WalkUpdate_IgnoresChecked(update, skip, i + 1, cmp)
             ELSE WalkUpdate_IgnoresChecked(update, skip, i + 1,
                      [cmp EXCEPT !.Added = Append(@, Join("update", relativePath))])

\* compareDirectories, the walk of the candidate tree from position i on: a
\* file the first walk did not meet is added
RECURSIVE WalkUpdate(_, _, _, _)
WalkUpdate(update, skip, i, cmp) ==
    IF i > Len(WalkOrder) THEN cmp
    ELSE LET relativePath == WalkOrder[i]
         IN  IF \/ update.files[relativePath] = 0
                \/ Skipped(relativePath, skip)
                \/ relativePath \in cmp.checked
             THEN WalkUpdate(update, skip, i + 1, cmp)
             ELSE WalkUpdate(update, skip, i + 1,
                      [cmp EXCEPT !.Added = Append(@, Join("update", relativePath))])

\* compareDirectories: a tree that does not exist is walked as an empty one
compareDirectories(upstream, update, skip) ==
    LET empty == [Added |-> <<>>, Removed |-> <<>>, Modified |-> <<>>, checked |-> {}]
        done == WalkUpdate(update, skip, 1, WalkUpstream(upstream, update, skip, 1, empty))
    IN  [Added |-> done.Added, Removed |-> done.Removed,
         Modified |-> done.Modified, err |-> "nil"]

InitCompare ==
    /\ FilterIdle
    /\ ReconcilerIdle
    /\ RunIdle
    /\ pc = "compare"
    /\ upstreamPath \in Trees
    /\ updatePath \in Trees
    /\ skipDirs \in SUBSET RelDirs
    /\ comparison = <<>>
    /\ OverlayIdle

\* one call of compareDirectories
CompareDirectories ==
    /\ pc = "compare"
    /\ comparison' = compareDirectories(upstreamPath, updatePath, skipDirs)
    /\ pc' = "compared"
    /\ UNCHANGED <<upstreamPath, updatePath, skipDirs>>
    /\ UNCHANGED <<filterVars, reconcileVars, runVars>>
    /\ UNCHANGED overlayVars

NextCompare == CompareDirectories

SpecCompare == InitCompare /\ [][NextCompare]_vars

\* ------------------------------------------------- a run over the packages
\* The packages of a run. A package is named by its position; it carries
\* what the run meets when it works on it:
\*   fetchUpstream    - whether fetcher.FetchUpstream returns an error
\*   upstreamVersions - the versions FetchUpstream returns
\*   indexYaml        - the package's entries in index.yaml
\*   loadChart        - whether fetcher.LoadChartFromUrl returns an error
PackageUpstreams ==
    {<<>>, <<VerStr(2, 0, 0)>>, <<[VerStr(2, 0, 0) EXCEPT !.pre = TRUE]>>}
PackageIndexes ==
    {[ok |-> TRUE, entries |-> <<>>], [ok |-> TRUE, entries |-> <<VerStr(2, 0, 0)>>]}
PackageWrappers ==
    [fetchUpstream : {"nil"}, upstreamVersions : PackageUpstreams,
     indexYaml : PackageIndexes, loadChart : {"nil", "error"}]
    \cup
    [fetchUpstream : {"error"}, upstreamVersions : {<<>>},
     indexYaml : {[ok |-> TRUE, entries |-> <<>>]}, loadChart : {"nil"}]

\* the stored charts of a package of the run: none, or two whose featured
\* values differ
PackageStores ==
    {assets \in StoredCharts :
        \/ \A v \in ChartVersions : assets[v] = NoFile
        \/ /\ \A v \in ExistingVersions : assets[v].file /\ assets[v].featured.has
           /\ assets[1].featured.val = "1" /\ assets[2].featured.val = "2"}

\* PackageWrapper.Populate: err is "nil", "error" or "panic" (line 137 reads
\* sourceMetadata.Versions[0] whatever the length of the list)
PackagePopulate(packageWrapper) ==
    IF packageWrapper.fetchUpstream # "nil"
    THEN [updated |-> FALSE, err |-> "error", FetchVersions |-> <<>>]
    ELSE IF Len(packageWrapper.upstreamVersions) = 0
    THEN [updated |-> FALSE, err |-> "panic", FetchVersions |-> <<>>]
    ELSE LET filtered == filterVersions(packageWrapper.upstreamVersions, "", <<>>,
                                        packageWrapper.indexYaml)
         IN  IF filtered.err = "panic"
             THEN [updated |-> FALSE, err |-> "panic", FetchVersions |-> <<>>]
             ELSE IF filtered.err # "nil"
             THEN [updated |-> FALSE, err |-> "error", FetchVersions |-> <<>>]
             ELSE [updated |-> Len(filtered.versions) # 0, err |-> "nil",
                   FetchVersions |-> filtered.versions]

\* ApplyUpdates on a populated package and its stored charts: the error and
\* the stored charts afterwards
ApplyUpdates(packageWrapper, d) ==
    LET existing == loadExistingCharts(d.assets)
        new == [k \in 1..Len(packageWrapper.FetchVersions) |->
                   NewChartWrapper(MaxExisting + k, NoAnnotation)]
        done == integrateCharts(existing, new)
    IN  IF packageWrapper.loadChart # "nil" /\ Len(packageWrapper.FetchVersions) > 0
        THEN [err |-> "error", disk |-> d]
        ELSE IF done.err = "panic" THEN [err |-> "panic", disk |-> d]
        ELSE IF done.err # "nil" THEN [err |-> "error", disk |-> d]
        ELSE [err |-> "nil",
              disk |-> writeCharts(done.existing \o done.new, d, NoWrites).disk]

InitRun ==
    /\ FilterIdle
    /\ ValidatorIdle
    /\ pc = "populating"
    /\ packageWrappers \in [1..MaxPackages -> PackageWrappers]
    /\ disk \in [1..MaxPackages ->
                    {[assets |-> assets, charts |-> assets] : assets \in PackageStores}]
    /\ loopIndex = 1
    /\ packageList = <<>>
    /\ skippedList = <<>>
    /\ fetched = <<>>
    /\ existingCharts = <<>>
    /\ newCharts = <<>>
    /\ writes = NoWrites
    /\ OverlayIdle

\* generateChanges, lines 1032-1050: one turn of the first loop
PopulatePackage ==
    /\ pc = "populating"
    /\ loopIndex <= Len(packageWrappers)
    /\ LET populated == PackagePopulate(packageWrappers[loopIndex])
       IN  /\ pc' = IF populated.err = "panic" THEN "panic" ELSE "populating"
           /\ packageList' =
                  IF populated.err = "nil" /\ populated.updated
                  THEN Append(packageList,
                              [name |-> loopIndex,
                               loadChart |-> packageWrappers[loopIndex].loadChart,
                               FetchVersions |-> populated.FetchVersions])
                  ELSE packageList
    /\ loopIndex' = loopIndex + 1
    /\ UNCHANGED <<packageWrappers, skippedList>>
    /\ UNCHANGED <<filterVars, reconcileVars, validateVars>>
    /\ UNCHANGED overlayVars

\* generateChanges, lines 1052-1056: the first loop is over
EndPopulate ==
    /\ pc = "populating"
    /\ loopIndex > Len(packageWrappers)
    /\ pc' = IF Len(packageList) = 0 THEN "returned" ELSE "applying"
    /\ loopIndex' = 1
    /\ UNCHANGED <<packageWrappers, packageList, skippedList>>
    /\ UNCHANGED <<filterVars, reconcileVars, validateVars>>
    /\ UNCHANGED overlayVars

\* generateChanges, lines 1058-1063: one turn of the second loop
ApplyPackage ==
    /\ pc = "applying"
    /\ loopIndex <= Len(packageList)
    /\ LET packageWrapper == packageList[loopIndex]
           applied == ApplyUpdates(packageWrapper, disk[packageWrapper.name])
       IN  /\ pc' = IF applied.err = "panic" THEN "panic" ELSE "applying"
           /\ skippedList' = IF applied.err = "error"
                             THEN Append(skippedList, packageWrapper.name)
                             ELSE skippedList
           /\ disk' = [disk EXCEPT ![packageWrapper.name] = applied.disk]
    /\ loopIndex' = loopIndex + 1
    /\ UNCHANGED <<packageWrappers, packageList>>
    /\ UNCHANGED <<fetched, existingCharts, newCharts, writes>>
    /\ UNCHANGED <<filterVars, validateVars>>
    /\ UNCHANGED overlayVars

\* generateChanges, lines 1064-1080: the second loop is over; logrus.Fatalf
\* when every package of packageList was skipped
EndRun ==
    /\ pc = "applying"
    /\ loopIndex > Len(packageList)
    /\ pc' = IF Len(skippedList) >= Len(packageList) THEN "fatal" ELSE "done"
    /\ UNCHANGED runVars
    /\ UNCHANGED <<filterVars, reconcileVars, validateVars>>
    /\ UNCHANGED overlayVars

NextRun == PopulatePackage \/ EndPopulate \/ ApplyPackage \/ EndRun

SpecRun == InitRun /\ [][NextRun]_vars

\* ------------------------------------------------------------ overlay files
\* the relative paths of the files of the model
OverlayPaths == {"README.md", "app-readme.md", "questions.yaml"}

\* the files a chart holds: a chart archive may hold a path more than once
ChartFiles == SeqsUpTo([Name : OverlayPaths, Data : 1..MaxBytes], MaxFiles)

\* the maps GetOverlayFiles returns: some of the paths, each with contents
OverlayMaps == UNION {[paths -> 1..MaxBytes] : paths \in SUBSET OverlayPaths}

\* the orders in which "range overlayFiles" may visit the keys of the map
RangeOrders(map) ==
    {order \in [1..Cardinality(DOMAIN map) -> DOMAIN map] :
        \A i, j \in 1..Cardinality(DOMAIN map) : i # j => order[i] # order[j]}

\* applyOverlayFiles, lines 651-661, with every path appended whether the
\* chart holds it or not
OverlayFile_AlwaysAppends(files, relativePath, contents) ==
    Append(files, [Name |-> relativePath, Data |-> contents])

\* applyOverlayFiles, lines 651-661: one turn of the loop, the first file of
\* that name overwritten or a new file appended
OverlayFile(files, relativePath, contents) ==
    LET found == {k \in 1..Len(files) : files[k].Name = relativePath}
    IN  IF found # {}
        THEN LET first == CHOOSE k \in found : \A j \in found : k <= j
             IN  [files EXCEPT ![first].Data = contents]
        ELSE Append(files, [Name |-> relativePath, Data |-> contents])

\* applyOverlayFiles: the loop over the map in the order given, from turn i on
RECURSIVE OverlayLoop(_, _, _, _)
OverlayLoop(map, order, i, files) ==
    IF i > Len(order) THEN files
    ELSE OverlayLoop(map, order, i + 1, OverlayFile(files, order[i], map[order[i]]))

\* applyOverlayFiles
applyOverlayFiles(map, chart, order) ==
    [chart EXCEPT !.Files = OverlayLoop(map, order, 1, chart.Files)]

InitOverlay ==
    /\ FilterIdle
    /\ ReconcilerIdle
    /\ ValidatorIdle
    /\ RunIdle
    /\ pc = "overlay"
    /\ helmChart \in [Files : ChartFiles]
    /\ overlayFiles \in OverlayMaps

\* integrateCharts, line 627: the call of applyOverlayFiles on a new chart
ApplyOverlayFiles ==
    /\ pc = "overlay"
    /\ \E order \in RangeOrders(overlayFiles) :
           helmChart' = applyOverlayFiles(overlayFiles, helmChart, order)
    /\ pc' = "overlaid"
    /\ UNCHANGED overlayFiles
    /\ UNCHANGED <<upstreamVersions, fetch, tracked, indexYaml, fetchVersions>>
    /\ UNCHANGED <<reconcileVars, validateVars, runVars>>

NextOverlay == ApplyOverlayFiles

SpecOverlay == InitOverlay /\ [][NextOverlay]_vars

\* ------------------------------------------------- the packages of a vendor
\* The packages of one vendor: their archives share the directory
\* assets/<vendor>, each has its own directory charts/<vendor>/<package>.
\* NameOrder is the order of their archives of one version in os.ReadDir.
PackageNames == {"bar", "foo", "foo-bar"}
NameOrder == <<"bar", "foo", "foo-bar">>
VendorVersions == 1..MaxVendorVersions

\* strings.HasPrefix(name, packageName + "-") on the names of the model
HasDashPrefix(name, packageName) == name = "foo-bar" /\ packageName = "foo"

\* filepath.Match("<packageName>-*.tgz", "<name>-<version>.tgz"), line 594
MatchesGlob(packageName, name) == name = packageName \/ HasDashPrefix(name, packageName)

\* the wrapper of a chart of the vendor, the chart's name with it
NamedChartWrapper(name, version, featured) ==
    [name |-> name, version |-> version, featured |-> featured, Modified |-> FALSE]

\* an unpacked chart directory
Unpacked(name, featured) == [file |-> TRUE, name |-> name, featured |-> featured]

\* the featured annotations of the stored charts of a vendor in the model
VendorAnnotations == {NoAnnotation, Annotation("1"), Annotation("2")}

\* loadExistingCharts, lines 589-606, for the archives of one version, in
\* directory order
LoadVersion(assets, packageName, v) ==
    SelectSeq([k \in 1..Len(NameOrder) |->
                      IF assets[<<NameOrder[k], v>>].file
                      THEN NamedChartWrapper(NameOrder[k], v,
                                             assets[<<NameOrder[k], v>>].featured)
                      ELSE NamedChartWrapper(NameOrder[k], 0, NoAnnotation)],
              LAMBDA w : w.version # 0 /\ MatchesGlob(packageName, w.name))

\* loadExistingCharts, lines 607-611: the versions v and below, newest first
\* (the sort keeps charts of one version in directory order)
RECURSIVE LoadVendorFrom(_, _, _)
LoadVendorFrom(assets, packageName, v) ==
    IF v = 0 THEN <<>>
    ELSE LoadVersion(assets, packageName, v) \o LoadVendorFrom(assets, packageName, v - 1)

\* loadExistingCharts(repoRoot, vendor, packageName) on the vendor's assets
loadVendorCharts(assets, packageName) ==
    LoadVendorFrom(assets, packageName, MaxVendorVersions)

\* writeCharts, line 550: os.RemoveAll(chartsDir)
RemoveAll(d, packageName) ==
    [d EXCEPT !.charts = [key \in DOMAIN d.charts |->
                             IF key[1] = packageName THEN NoFile ELSE d.charts[key]]]

\* writeCharts, lines 554-572, on the vendor's directories, from position i on
RECURSIVE WriteVendorLoop(_, _, _, _)
WriteVendorLoop(packageName, chartWrappers, i, d) ==
    IF i > Len(chartWrappers) THEN d
    ELSE LET chartWrapper == chartWrappers[i]
             assetsPath == <<chartWrapper.name, chartWrapper.version>>
             chartsPath == <<packageName, chartWrapper.version>>
             save == chartWrapper.Modified \/ ~d.assets[assetsPath].file
             assets == IF save
                       THEN [d.assets EXCEPT ![assetsPath] = File(chartWrapper.featured)]
                       ELSE d.assets
             gunzip == chartWrapper.Modified \/ ~d.charts[chartsPath].file
             charts == IF gunzip
                       THEN [d.charts EXCEPT ![chartsPath] =
                                Unpacked(chartWrapper.name, assets[assetsPath].featured)]
                       ELSE d.charts
         IN  WriteVendorLoop(packageName, chartWrappers, i + 1,
                             [assets |-> assets, charts |-> charts])

\* writeCharts(vendor, chartName, chartWrappers) on the vendor's directories
writeVendorCharts(packageName, chartWrappers, d) ==
    WriteVendorLoop(packageName, chartWrappers, 1, RemoveAll(d, packageName))

\* the stored charts of a vendor: archives of some versions of each package,
\* each unpacked in the directory of its package
VendorAssets == [PackageNames \X VendorVersions -> {NoFile} \cup {File(a) : a \in VendorAnnotations}]
UnpackedFrom(assets) ==
    [key \in PackageNames \X VendorVersions |->
        IF assets[key].file THEN Unpacked(key[1], assets[key].featured) ELSE NoFile]

\* the versions of a package that have no archive
NotStored(assets, packageName) == {v \in VendorVersions : ~assets[<<packageName, v>>].file}

\* ApplyUpdates for two packages of the vendor at a time, each in three
\* steps: the charts loaded and integrated, the charts directory removed,
\* the charts written
InitVendor ==
    /\ FilterIdle
    /\ ValidatorIdle
    /\ RunIdle
    /\ OverlayIdle
    /\ writes = NoWrites
    /\ \E assets \in VendorAssets : disk = [assets |-> assets, charts |-> UnpackedFrom(assets)]
    /\ pc \in [PackageNames -> {"load", "idle"}]
    /\ Cardinality({name \in PackageNames : pc[name] = "load"}) = 2
    /\ fetched \in [PackageNames -> SeqsUpTo([version : VendorVersions,
                                               featured : {NoAnnotation},
                                               meets : {"nil"}], 1)]
    /\ \A name \in PackageNames :
           IF pc[name] = "load"
           THEN Len(fetched[name]) = 1
                /\ fetched[name][1].version \in NotStored(disk.assets, name)
           ELSE fetched[name] = <<>>
    /\ existingCharts = [name \in PackageNames |-> <<>>]
    /\ newCharts = [name \in PackageNames |-> <<>>]

\* ApplyUpdates, lines 499-523, for the package
VendorLoad(packageName) ==
    /\ pc[packageName] = "load"
    /\ LET existing == loadVendorCharts(disk.assets, packageName)
           new == [k \in 1..Len(fetched[packageName]) |->
                      NamedChartWrapper(packageName, fetched[packageName][k].version,
                                        fetched[packageName][k].featured)]
           done == integrateCharts(existing, new)
       IN  /\ existingCharts' = [existingCharts EXCEPT ![packageName] = done.existing]
           /\ newCharts' = [newCharts EXCEPT ![packageName] = done.new]
           /\ pc' = [pc EXCEPT ![packageName] =
                         CASE done.err = "nil" -> "prune"
                           [] done.err = "panic" -> "panic"
                           [] OTHER -> "failed"]
    /\ UNCHANGED <<disk, fetched, writes>>
    /\ UNCHANGED <<filterVars, validateVars, runVars, overlayVars>>

\* writeCharts, line 550, for the package
VendorPrune(packageName) ==
    /\ pc[packageName] = "prune"
    /\ disk' = RemoveAll(disk, packageName)
    /\ pc' = [pc EXCEPT ![packageName] = "write"]
    /\ UNCHANGED <<fetched, existingCharts, newCharts, writes>>
    /\ UNCHANGED <<filterVars, validateVars, runVars, overlayVars>>

\* writeCharts, lines 554-572, for the package
VendorWrite(packageName) ==
    /\ pc[packageName] = "write"
    /\ disk' = WriteVendorLoop(packageName,
                               existingCharts[packageName] \o newCharts[packageName],
                               1, disk)
    /\ pc' = [pc EXCEPT ![packageName] = "done"]
    /\ UNCHANGED <<fetched, existingCharts, newCharts, writes>>
    /\ UNCHANGED <<filterVars, validateVars, runVars, overlayVars>>

NextVendor ==
    \E packageName \in PackageNames :
        VendorLoad(packageName) \/ VendorPrune(packageName) \/ VendorWrite(packageName)

SpecVendor == InitVendor /\ [][NextVendor]_vars

\* ---------------------------------------------------------- featured charts
\* featuredMax, line 54
featuredMax == 5

\* the second argument of "feature add" in the model
InputIndexes == {"0", "1", "01", "6", "x"}

\* strconv.Atoi on the arguments of the model
Atoi(inputIndex) ==
    CASE inputIndex = "0" -> [err |-> FALSE, n |-> 0]
      [] inputIndex = "1" -> [err |-> FALSE, n |-> 1]
      [] inputIndex = "01" -> [err |-> FALSE, n |-> 1]
      [] inputIndex = "6" -> [err |-> FALSE, n |-> 6]
      [] OTHER -> [err |-> TRUE, n |-> 0]

\* getByAnnotation(annotationFeatured, value) on the index.yaml writeIndex
\* generated from the assets directory: the names of the charts with a
\* version that carries the annotation with the value, any value if ""
getByAnnotation(assets, value) ==
    {name \in PackageNames :
        \E v \in VendorVersions :
            /\ assets[<<name, v>>].file
            /\ assets[<<name, v>>].featured.has
            /\ (value # "" => assets[<<name, v>>].featured.val = value)}

\* annotate, lines 205-211: the charts to update annotated or deannotated
AnnotateLoop(charts, value, remove, onlyLatest) ==
    [k \in 1..Len(charts) |->
        IF onlyLatest /\ k # 1 THEN charts[k]
        ELSE LET done == IF remove THEN DeannotateChart(charts[k].featured, value)
                         ELSE AnnotateChart(charts[k].featured, value, TRUE)
             IN  [charts[k] EXCEPT !.featured = done.featured,
                                   !.Modified = done.modified]]

\* annotate(vendor, chartName, annotationFeatured, value, remove, onlyLatest):
\* err is "nil" or "panic" (existingCharts[0] of an empty slice, line 200)
annotate(packageName, value, remove, onlyLatest, d) ==
    LET existing == loadVendorCharts(d.assets, packageName)
    IN  IF onlyLatest /\ Len(existing) = 0 THEN [err |-> "panic", disk |-> d]
        ELSE [err |-> "nil",
              disk |-> writeVendorCharts(packageName,
                           AnnotateLoop(existing, value, remove, onlyLatest), d)]

\* addFeaturedChart, and the index.yaml rewritten from the assets directory
addFeaturedChart(packageName, inputIndex, d) ==
    LET featuredNumber == Atoi(inputIndex)
    IN  IF featuredNumber.err THEN [err |-> "error", disk |-> d]
        ELSE IF featuredNumber.n < 1 \/ featuredNumber.n > featuredMax
        THEN [err |-> "error", disk |-> d]
        ELSE IF getByAnnotation(d.assets, inputIndex) # {}
        THEN [err |-> "held", disk |-> d]
        ELSE annotate(packageName, inputIndex, FALSE, TRUE, d)

\* removeFeaturedChart, and the index.yaml rewritten
removeFeaturedChart(packageName, d) == annotate(packageName, "", TRUE, FALSE, d)

\* ApplyUpdates on a package of the vendor with one version fetched
updateVendorPackage(packageName, version, featured, d) ==
    LET existing == loadVendorCharts(d.assets, packageName)
        new == <<NamedChartWrapper(packageName, version, featured)>>
        done == integrateCharts(existing, new)
    IN  IF done.err # "nil" THEN [err |-> "error", disk |-> d]
        ELSE [err |-> "nil",
              disk |-> writeVendorCharts(packageName, done.existing \o done.new, d)]

\* no two packages carry the same value of the featured annotation
Unshared(assets) ==
    \A name, other \in PackageNames : \A v, w \in VendorVersions :
        (name # other /\ assets[<<name, v>>].file /\ assets[<<other, w>>].file
            /\ assets[<<name, v>>].featured.has /\ assets[<<other, w>>].featured.has)
        => assets[<<name, v>>].featured.val # assets[<<other, w>>].featured.val

\* a repository in which no two packages share a featured value; pc is the
\* outcome of the last command
InitFeatured ==
    /\ FilterIdle
    /\ ValidatorIdle
    /\ RunIdle
    /\ OverlayIdle
    /\ writes = NoWrites
    /\ fetched = <<>>
    /\ existingCharts = <<>>
    /\ newCharts = <<>>
    /\ pc = "ready"
    /\ \E assets \in VendorAssets :
           /\ Unshared(assets)
           /\ disk = [assets |-> assets, charts |-> UnpackedFrom(assets)]

\* the command "feature add <package> <number>"
FeatureAdd ==
    /\ \E packageName \in PackageNames, inputIndex \in InputIndexes :
           LET done == addFeaturedChart(packageName, inputIndex, disk)
           IN  /\ disk' = done.disk
               /\ pc' = IF done.err = "nil" THEN "added" ELSE done.err
    /\ UNCHANGED <<fetched, existingCharts, newCharts, writes>>
    /\ UNCHANGED <<filterVars, validateVars, runVars, overlayVars>>

\* the command "feature remove <package>"
FeatureRemove ==
    /\ \E packageName \in PackageNames :
           LET done == removeFeaturedChart(packageName, disk)
           IN  /\ disk' = done.disk
               /\ pc' = "removed"
    /\ UNCHANGED <<fetched, existingCharts, newCharts, writes>>
    /\ UNCHANGED <<filterVars, validateVars, runVars, overlayVars>>

\* an update of one package: generateChanges with a version to fetch
UpdatePackage ==
    /\ \E packageName \in PackageNames :
           \E version \in NotStored(disk.assets, packageName) :
               \E featured \in UpstreamAnnotations :
                   LET done == updateVendorPackage(packageName, version, featured, disk)
                   IN  /\ disk' = done.disk
                       /\ pc' = IF done.err = "nil" THEN "updated" ELSE "skipped"
    /\ UNCHANGED <<fetched, existingCharts, newCharts, writes>>
    /\ UNCHANGED <<filterVars, validateVars, runVars, overlayVars>>

NextFeatured == FeatureAdd \/ FeatureRemove \/ UpdatePackage

SpecFeatured == InitFeatured /\ [][NextFeatured]_vars

\* ---------------------------------------------------- terms of the claims
\* filterVersions returned a fetch list and no error
Returned == pc = "populated" /\ fetchVersions.err = "nil"

\* the fetch list
Selected == fetchVersions.versions

\* the stored versions the selection was made against
SeenStored == IF indexYaml.ok THEN indexYaml.entries ELSE <<>>

\* a version string that parses and carries no prerelease
IsRelease(s) == s.ok /\ ~s.pre

\* the upstream versions that remain after prerelease exclusion
Releases == SelectSeq(upstreamVersions, IsRelease)

\* u and the stored s, its revision suffix stripped, are the same version
EqualsStripped(u, s) ==
    /\ u.ok /\ s.ok
    /\ u.maj = s.maj /\ u.min = s.min /\ u.pat = s.pat /\ u.pre = s.pre

\* u equals some version of the stored list, revision suffix stripped
InStored(u, stored) == \E k \in 1..Len(stored) : EqualsStripped(u, stored[k])

\* a is strictly greater than b in semver order (b's revision suffix stripped)
StrictlyNewer(a, b) ==
    \/ a.maj > b.maj
    \/ a.maj = b.maj /\ a.min > b.min
    \/ a.maj = b.maj /\ a.min = b.min /\ a.pat > b.pat
    \/ a.maj = b.maj /\ a.min = b.min /\ a.pat = b.pat /\ b.pre /\ ~a.pre

\* s belongs to the release line major.minor of the tracked string
OnLine(s, line) == s.ok /\ s.maj = line.maj /\ s.min = line.min

\* the versions of a list on a release line, in list order
LineOf(versions, line) == SelectSeq(versions, LAMBDA s : OnLine(s, line))

\* the buckets, in processing order: the whole lists when no line is tracked,
\* else one bucket per entry of tracked
Buckets ==
    IF tracked = <<>> THEN <<[up |-> Releases, stored |-> SeenStored]>>
    ELSE [k \in 1..Len(tracked) |->
            [up |-> LineOf(Releases, tracked[k]),
             stored |-> LineOf(SeenStored, tracked[k])]]

\* the concatenation of a sequence of sequences
RECURSIVE Flatten(_)
Flatten(ss) == IF ss = <<>> THEN <<>> ELSE Head(ss) \o Flatten(Tail(ss))

\* the bucket results, concatenated in bucket order
PerBucket(Sel(_, _)) ==
    Flatten([k \in 1..Len(Buckets) |-> Sel(Buckets[k].up, Buckets[k].stored)])

\* Latest: nothing when the bucket's newest version is stored, else only it
LatestOf(up, stored) ==
    IF up = <<>> THEN <<>>
    ELSE LET newest == CHOOSE v \in {up[k] : k \in 1..Len(up)} :
                           \A k \in 1..Len(up) : ~StrictlyNewer(up[k], v)
         IN  IF InStored(newest, stored) THEN <<>> ELSE <<newest>>

\* Newer: the versions strictly newer than the newest stored one; all of them
\* when nothing is stored
NewerOf(up, stored) ==
    IF stored = <<>> THEN up
    ELSE LET newestStored == CHOOSE s \in {stored[k] : k \in 1..Len(stored)} :
                                 \A k \in 1..Len(stored) : ~StrictlyNewer(stored[k], s)
         IN  SelectSeq(up, LAMBDA v : StrictlyNewer(v, newestStored))

\* All: the versions that equal no stored version
AllOf(up, stored) == SelectSeq(up, LAMBDA v : ~InStored(v, stored))

\* ------------------------------------------------------------------ claims
\* C1: no version carrying a prerelease qualifier is in the fetch list that
\* filterVersions returns, whatever the fetch mode and the tracked lines.
C1_NoPrereleaseSelected ==
    pc = "populated" =>
        \A k \in 1..Len(Selected) : ~(Selected[k].ok /\ Selected[k].pre)

\* C1 witness: a list with a prerelease was filtered and something was selected
C1_Witness ==
    /\ Returned
    /\ \E k \in 1..Len(upstreamVersions) : upstreamVersions[k].pre
    /\ Selected # <<>>

\* C2: with fetch "" or "latest" each bucket yields nothing when its newest
\* upstream version equals a stored version (revision stripped), and exactly
\* that newest version otherwise.
C2_LatestPerBucket ==
    (Returned /\ fetch \in {"", "latest"}) => Selected = PerBucket(LatestOf)

\* C2 witness: two tracked lines under Latest, one whose newest version is
\* stored (nothing selected) and one that yields its newest version
C2_Witness ==
    /\ Returned /\ fetch \in {"", "latest"}
    /\ Len(tracked) = 2
    /\ Len(Selected) = 1
    /\ \E k \in 1..2 : Buckets[k].up # <<>> /\ InStored(Buckets[k].up[1], Buckets[k].stored)

\* C4: with fetch "newer" each bucket yields exactly its upstream versions
\* strictly newer than its newest stored version, in upstream order, and the
\* whole bucket when it has no stored version.
C4_NewerPerBucket ==
    (Returned /\ fetch = "newer") => Selected = PerBucket(NewerOf)

\* C4 witness: Newer against a non-empty stored list selected some of the
\* releases and left others out
C4_Witness ==
    /\ Returned /\ fetch = "newer"
    /\ SeenStored # <<>>
    /\ Selected # <<>>
    /\ Len(Selected) < Len(Releases)

\* C5 as stated: with fetch "all" the fetch list is exactly the releases of
\* the upstream list that equal no stored version (revision stripped).
C5_AllIsEveryNonStored ==
    (Returned /\ fetch = "all") => Selected = AllOf(Releases, SeenStored)

\* C5 amended: with fetch "all" the fetch list is, bucket by bucket, exactly
\* the releases that equal no stored version: all of them when no line is
\* tracked, and those of the tracked lines, in tracked order, otherwise.
C5_AllPerBucket ==
    (Returned /\ fetch = "all") => Selected = PerBucket(AllOf)

\* C5 witness: All with a tracked line selected something, left a stored
\* version out and left out a release of an untracked line
C5_Witness ==
    /\ Returned /\ fetch = "all"
    /\ tracked # <<>>
    /\ Selected # <<>>
    /\ \E k \in 1..Len(Releases) : InStored(Releases[k], SeenStored)
    /\ \E k \in 1..Len(Releases) :
           \A t \in 1..Len(tracked) : ~OnLine(Releases[k], tracked[t])

\* C6: when no version is left after prerelease exclusion, filterVersions
\* returns the "no versions" error and an empty list, and does not crash.
C6_EmptyUpstreamFails ==
    (pc = "populated" /\ Releases = <<>>) =>
        (fetchVersions.err = "NoVersions" /\ Selected = <<>>)

\* C3 as stated: with fetch "newer", every version collectNonStoredVersions
\* selects is strictly greater than every stored version (revision stripped),
\* whatever the order of the stored list.
C3_NewerAboveEveryStored ==
    (pc = "collected" /\ fetchVersions.err = "nil" /\ fetch = "newer") =>
        \A i \in 1..Len(Selected) : \A k \in 1..Len(indexYaml.entries) :
            StrictlyNewer(Selected[i], indexYaml.entries[k])

\* the stored list is in newest-first order
StoredNewestFirst ==
    \A i, j \in 1..Len(indexYaml.entries) :
        i < j => ~StrictlyNewer(indexYaml.entries[j], indexYaml.entries[i])

\* C3 amended: with fetch "newer" and a stored list sorted newest first,
\* every version selected is strictly greater than every stored version.
C3_NewerAboveEverySortedStored ==
    (pc = "collected" /\ fetchVersions.err = "nil" /\ fetch = "newer"
        /\ StoredNewestFirst) =>
        \A i \in 1..Len(Selected) : \A k \in 1..Len(indexYaml.entries) :
            StrictlyNewer(Selected[i], indexYaml.entries[k])

\* C3 witness: Newer against two different stored versions, newest first,
\* selected one version and left another out
C3_Witness ==
    /\ pc = "collected" /\ fetchVersions.err = "nil" /\ fetch = "newer"
    /\ StoredNewestFirst
    /\ Len(indexYaml.entries) = 2
    /\ StrictlyNewer(indexYaml.entries[1], indexYaml.entries[2])
    /\ Len(Selected) = 1
    /\ Len(upstreamVersions) = 2

\* ------------------------------------------- terms of the reconciler claims
\* integrateCharts has run to an end: returned nil, returned an error, crashed
Integrated == pc \in {"integrated", "failed", "panic", "written"}

\* the versions stored before the run whose chart carries the featured
\* annotation, and the values they carry (the assets directory is written
\* only on the way to "written")
StoredFeatured ==
    {v \in ChartVersions : disk.assets[v].file /\ disk.assets[v].featured.has}
StoredFeaturedValues == {disk.assets[v].featured.val : v \in StoredFeatured}

\* the full set of charts after integration
AllCharts == existingCharts \o newCharts

\* C7: after integrateCharts returns without error, at most one chart of
\* existingCharts and newCharts together carries the featured annotation.
C7_AtMostOneFeatured ==
    pc = "integrated" =>
        Cardinality({k \in 1..Len(AllCharts) : AllCharts[k].featured.has}) <= 1

\* C8: integration fails with the featured-conflict error whenever the
\* existing charts carry more than one distinct value of the featured
\* annotation, whatever the scan order and the values.
C8_ConflictAlwaysFails ==
    (pc \in {"integrated", "failed", "panic"}
        /\ Cardinality(StoredFeaturedValues) > 1) => pc = "failed"

\* C9: when the existing charts carry a featured value and charts were
\* fetched, integration puts that value on the last new chart, removes the
\* annotation from every existing chart, and marks an existing chart modified
\* exactly when it carried the annotation.
C9_FeaturedMovesToLastNew ==
    (pc \in {"integrated", "failed", "panic"}
        /\ Cardinality(StoredFeaturedValues) = 1 /\ Len(fetched) > 0) =>
        /\ pc = "integrated"
        /\ newCharts[Len(newCharts)].featured.has
        /\ StoredFeaturedValues = {newCharts[Len(newCharts)].featured.val}
        /\ \A k \in 1..Len(existingCharts) :
               /\ ~existingCharts[k].featured.has
               /\ existingCharts[k].Modified
                      <=> existingCharts[k].version \in StoredFeatured

\* C10: integrating and writing an existing chart set with nothing fetched
\* neither crashes, nor marks a chart modified, nor wipes, saves or unpacks
\* anything in storage, featured annotation or not.
C10_NothingFetchedNothingWritten ==
    (Integrated /\ Len(fetched) = 0) =>
        /\ pc # "panic"
        /\ \A k \in 1..Len(existingCharts) : ~existingCharts[k].Modified
        /\ writes = NoWrites

\* C11: writeCharts saves the archive of a chart only if the chart is
\* modified or had no archive, unpacks its directory only if the chart is
\* modified or had no directory, and leaves both forms of an unmodified
\* stored chart as they were.
C11_WritesOnlyModifiedOrMissing ==
    [][pc = "integrated" =>
        \A k \in 1..Len(AllCharts) :
            LET chart == AllCharts[k]
                version == chart.version
            IN  /\ version \in writes'.saved =>
                       (chart.Modified \/ ~disk.assets[version].file)
                /\ version \in writes'.unpacked =>
                       (chart.Modified \/ ~disk.charts[version].file)
                /\ (~chart.Modified /\ disk.assets[version].file) =>
                       /\ disk'.assets[version] = disk.assets[version]
                       /\ disk'.charts[version] = disk.charts[version]]_vars

\* the versions of the charts passed to writeCharts
WrittenVersions == {AllCharts[k].version : k \in 1..Len(AllCharts)}

\* C12: after writeCharts the package's stored archives and its unpacked
\* directories are exactly those of the versions of the charts passed in.
C12_StorageMatchesCharts ==
    pc = "written" =>
        /\ {v \in ChartVersions : disk.assets[v].file} = WrittenVersions
        /\ {v \in ChartVersions : disk.charts[v].file} = WrittenVersions

\* C13: integrateCharts leaves every existing chart as loadExistingCharts
\* loaded it, except that it may remove the featured annotation, and it sets
\* Modified on an existing chart only together with that removal.
C13_ExistingOnlyLoseFeatured ==
    pc \in {"integrated", "failed", "panic"} =>
        LET loaded == loadExistingCharts(disk.assets)
        IN  /\ Len(existingCharts) = Len(loaded)
            /\ \A k \in 1..Len(loaded) :
                   \/ existingCharts[k] = loaded[k]
                   \/ /\ loaded[k].featured.has
                      /\ existingCharts[k] =
                             [loaded[k] EXCEPT !.featured = NoAnnotation,
                                               !.Modified = TRUE]

\* C13 witness: charts were fetched and integrated; one existing chart lost
\* the featured annotation and is modified, another is as it was loaded
C13_Witness ==
    /\ pc = "integrated"
    /\ Len(newCharts) > 0
    /\ \A k \in 1..Len(newCharts) : newCharts[k].Modified
    /\ \E k \in 1..Len(existingCharts) :
           /\ existingCharts[k].Modified
           /\ disk.assets[existingCharts[k].version].featured.has
           /\ ~existingCharts[k].featured.has
    /\ \E k \in 1..Len(existingCharts) :
           existingCharts[k] = loadExistingCharts(disk.assets)[k]

\* C14: matchHelmCharts reports two archives equivalent exactly when they
\* agree on every annotation outside the reserved prefix, on the other
\* Chart.yaml fields, on the dependencies and on every file, present or not.
C14_MatchIffOnlyReservedDiffer ==
    pc = "matched" =>
        (comparison.match <=>
            /\ \A key \in AnnotationKeys :
                   ~HasReservedPrefix(key) =>
                       /\ key \in DOMAIN upstreamPath.annotations
                              <=> key \in DOMAIN updatePath.annotations
                       /\ key \in DOMAIN upstreamPath.annotations =>
                              upstreamPath.annotations[key] = updatePath.annotations[key]
            /\ upstreamPath.description = updatePath.description
            /\ upstreamPath.dependencies = updatePath.dependencies
            /\ upstreamPath.valuesYaml = updatePath.valuesYaml)

\* C14 witness: two archives that differ in a reserved annotation and in the
\* deprecated field, and in nothing else, were reported equivalent
C14_Witness ==
    /\ pc = "matched"
    /\ comparison.match
    /\ upstreamPath.deprecated # updatePath.deprecated
    /\ "catalog.cattle.io/featured" \in DOMAIN updatePath.annotations
    /\ "catalog.cattle.io/featured" \notin DOMAIN upstreamPath.annotations
    /\ "example.com/owner" \in DOMAIN upstreamPath.annotations

\* the path lies below a directory of skipDirs
UnderSkipped(relativePath) ==
    \E dir \in skipDirs :
        /\ Len(dir) < Len(relativePath)
        /\ \A n \in 1..Len(dir) : dir[n] = relativePath[n]

\* whether a result list of the comparison holds the path
Holds(list, relativePath) ==
    \E k \in 1..Len(list) : list[k].rel = relativePath

\* how many entries of the comparison's three lists are the path
Reports(relativePath) ==
    Cardinality({k \in 1..Len(comparison.Added) : comparison.Added[k].rel = relativePath})
    + Cardinality({k \in 1..Len(comparison.Removed) : comparison.Removed[k].rel = relativePath})
    + Cardinality({k \in 1..Len(comparison.Modified) : comparison.Modified[k].rel = relativePath})

\* C15: of the files outside the skipped directories, compareDirectories
\* puts a path only in the candidate in Added, a path only in the reference
\* in Removed, a path in both with different bytes in Modified and a path in
\* both with the same bytes nowhere, and no path is reported twice.
C15_EveryPathClassifiedOnce ==
    pc = "compared" =>
        \A path \in RelPaths :
            ~UnderSkipped(path) =>
                LET ref == upstreamPath.files[path]
                    cand == updatePath.files[path]
                IN  /\ Holds(comparison.Added, path) <=> (ref = 0 /\ cand # 0)
                    /\ Holds(comparison.Removed, path) <=> (ref # 0 /\ cand = 0)
                    /\ Holds(comparison.Modified, path) <=>
                           (ref # 0 /\ cand # 0 /\ ref # cand)
                    /\ Reports(path) <= 1

\* C15 witness: one comparison reported an added, a removed and a modified
\* file with nothing skipped
C15_Witness ==
    /\ pc = "compared"
    /\ skipDirs = {}
    /\ Len(comparison.Added) = 1
    /\ Len(comparison.Removed) = 1
    /\ Len(comparison.Modified) = 1

\* the files of a tree outside the skipped directories
Files(tree) == {path \in RelPaths : tree.files[path] # 0 /\ ~UnderSkipped(path)}

\* the entries of a result list
Entries(list) == {list[k] : k \in 1..Len(list)}

\* C16: compareDirectories returns no error for a missing tree; with no
\* reference tree it reports every candidate file as Added, with no candidate
\* tree every reference file as Removed, each under the candidate root.
C16_MissingTreeIsEmpty ==
    pc = "compared" =>
        /\ comparison.err = "nil"
        /\ ~upstreamPath.exists =>
               /\ Entries(comparison.Added) = {Join("update", path) : path \in Files(updatePath)}
               /\ Len(comparison.Added) = Cardinality(Files(updatePath))
               /\ comparison.Removed = <<>> /\ comparison.Modified = <<>>
        /\ ~updatePath.exists =>
               /\ Entries(comparison.Removed) = {Join("update", path) : path \in Files(upstreamPath)}
               /\ Len(comparison.Removed) = Cardinality(Files(upstreamPath))
               /\ comparison.Added = <<>> /\ comparison.Modified = <<>>

\* C16 witness: the candidate tree does not exist and two reference files
\* were reported removed
C16_Witness ==
    /\ pc = "compared"
    /\ ~updatePath.exists
    /\ upstreamPath.exists
    /\ Len(comparison.Removed) = 2

\* C17: compareDirectories reports no file of a skipped directory or of a
\* directory below one.
C17_SkippedNeverReported ==
    pc = "compared" =>
        \A path \in RelPaths : UnderSkipped(path) => Reports(path) = 0

\* C17 witness: only the upper directory is skipped, the file two levels
\* below it differs between the trees, and nothing was reported
C17_Witness ==
    /\ pc = "compared"
    /\ skipDirs = {<<"skipped-directory">>}
    /\ upstreamPath.files[<<"skipped-directory", "sub", "testfile">>] = 1
    /\ updatePath.files[<<"skipped-directory", "sub", "testfile">>] = 2
    /\ upstreamPath.files[<<"skipped-directory", "testfile">>] = 0
    /\ updatePath.files[<<"skipped-directory", "testfile">>] = 1
    /\ comparison.Added = <<>> /\ comparison.Removed = <<>> /\ comparison.Modified = <<>>

\* the packages of the run that the first loop has worked on
Populated ==
    IF pc = "populating" THEN 1..(loopIndex - 1) ELSE 1..Len(packageWrappers)

\* C18: in a run of generateChanges the failure of one package never ends the
\* run before the other packages were worked on; a package whose update
\* failed is in the skipped list; and the run ends with the fatal error only
\* if every package that had versions to fetch was skipped.
C18_FailuresStayInTheirPackage ==
    /\ pc # "panic"
    /\ pc \in {"fatal", "done"} =>
           \A k \in 1..Len(packageList) :
               (ApplyUpdates(packageList[k], disk[packageList[k].name]).err # "nil")
                   <=> \E n \in 1..Len(skippedList) : skippedList[n] = packageList[k].name
    /\ pc = "fatal" => Len(skippedList) = Len(packageList)

\* C19: a malformed version string among the upstream or the stored versions
\* does not make filterVersions crash, and where a well-formed upstream
\* version is left, filterVersions returns what it returns for the same
\* lists without their malformed entries.
C19_MalformedEntriesAreSkipped ==
    (pc = "populated" /\ Len(upstreamVersions) > 0) =>
        /\ fetchVersions.err # "panic"
        /\ Len(WellFormed(upstreamVersions)) > 0 =>
               fetchVersions =
                   filterVersions(WellFormed(upstreamVersions), fetch, tracked,
                                  [indexYaml EXCEPT !.entries = WellFormed(@)])

\* s parses and its (major, minor) is less than the tracked line's
BelowLine(s, line) ==
    s.ok /\ (s.maj < line.maj \/ (s.maj = line.maj /\ s.min < line.min))

\* the part of the list before its first version below the tracked line
BeforeFirstBelow(versions, line) ==
    LET below == {i \in 1..Len(versions) : BelowLine(versions[i], line)}
    IN  IF below = {} THEN versions
        ELSE SubSeq(versions, 1, (CHOOSE i \in below : \A j \in below : i <= j) - 1)

\* C20: collectTrackedVersions returns a bucket for every tracked line and no
\* error; the bucket holds, in list order, the versions on the line that come
\* before the first version below the line, and for a list sorted newest
\* first these are exactly the versions of the list on the line.
C20_BucketsHoldTheirLine ==
    pc = "tracked" =>
        /\ fetchVersions.err = "nil"
        /\ DOMAIN fetchVersions.versions = {tracked[k] : k \in 1..Len(tracked)}
        /\ \A k \in 1..Len(tracked) :
               /\ fetchVersions.versions[tracked[k]] =
                      LineOf(BeforeFirstBelow(upstreamVersions, tracked[k]), tracked[k])
               /\ UpstreamSorted(upstreamVersions) =>
                      fetchVersions.versions[tracked[k]] =
                          LineOf(upstreamVersions, tracked[k])

\* C20 witness: a sorted list with a version on the first tracked line and
\* then one below it, and a second tracked line that no version is on
C20_Witness ==
    /\ pc = "tracked"
    /\ UpstreamSorted(upstreamVersions)
    /\ Len(upstreamVersions) = 2 /\ Len(tracked) = 2
    /\ BelowLine(upstreamVersions[2], tracked[1])
    /\ fetchVersions.versions[tracked[1]] = <<upstreamVersions[1]>>
    /\ tracked[2] # tracked[1]
    /\ fetchVersions.versions[tracked[2]] = <<>>

\* ---------------------------------------------- ApplyUpdates, failing steps
\* C22: a fetch failure for one version is fatal to that version only: when
\* ApplyUpdates has ended on a failed chart load, every other fetched version
\* whose steps all succeed has been written to the assets directory.
C22_FetchFailureLosesOnlyItsVersion ==
    pc = "fetchfailed" =>
        \A k \in 1..Len(fetched) :
            fetched[k].meets = "nil" => disk.assets[fetched[k].version].file

\* C24: the step of ApplyUpdates in which integrateCharts fails makes no
\* storage write for the package: the archives and the unpacked directories
\* stay as they were and nothing else is written.
C24_FailedIntegrationWritesNothing ==
    [][(pc = "loaded" /\ pc' = "failed") =>
           (disk' = disk /\ writes' = writes)]_vars

\* ------------------------------------------------ version filter, continued
\* C23: when the index file cannot be loaded, filterVersions returns the load
\* error to its caller, with tracked lines and without them.
C23_IndexLoadErrorIsReturned ==
    (pc = "populated" /\ Releases # <<>> /\ ~indexYaml.ok) =>
        fetchVersions.err = "LoadIndex"

\* C27 as stated: no version of the fetch list equals a stored version
\* (revision stripped), whatever the fetch mode, the tracked lines and the
\* order of the stored list.
C27_NoStoredVersionSelected ==
    Returned =>
        \A i \in 1..Len(Selected) : ~InStored(Selected[i], indexYaml.entries)

\* C27 amended: no version of the fetch list equals a stored version when no
\* line is tracked, or when the stored list is in newest-first order.
C27_NoStoredVersionSelectedSorted ==
    (Returned /\ (tracked = <<>> \/ StoredNewestFirst)) =>
        \A i \in 1..Len(Selected) : ~InStored(Selected[i], indexYaml.entries)

\* C27 witness: a tracked line with two stored versions, one of them stored
\* under a revision suffix and in the upstream list, and a selection made
C27_Witness ==
    /\ Returned
    /\ tracked # <<>> /\ StoredNewestFirst
    /\ Len(indexYaml.entries) = 2
    /\ \E k \in 1..2 : indexYaml.entries[k].rev # 0
                         /\ InStored(indexYaml.entries[k], Releases)
    /\ Selected # <<>>

\* a list holds no version twice
NoRepeat(versions) ==
    \A i, j \in 1..Len(versions) : i # j => versions[i] # versions[j]

\* C28: when the upstream list has no repeated version, the fetch list holds
\* no version twice, whatever the tracked lines and the fetch mode.
C28_NoVersionSelectedTwice ==
    (Returned /\ NoRepeat(upstreamVersions)) => NoRepeat(Selected)

\* C29: collectNonStoredVersions returns the same selection for fetch strings
\* that differ only in letter case.
C29_FetchModeIgnoresCase ==
    (pc = "collected" /\ fetchVersions.err = "nil"
        /\ \A k \in 1..Len(upstreamVersions) : upstreamVersions[k].ok) =>
        \A other \in FetchStrings :
            ToLower(other) = ToLower(fetch) =>
                collectNonStoredVersions(upstreamVersions, indexYaml.entries,
                                         other).versions = Selected

\* -------------------------------------------------------------- overlay files
\* the number of files of a list at a path
CountAt(files, path) == Cardinality({k \in 1..Len(files) : files[k].Name = path})

\* C21: applyOverlayFiles leaves, for every path of the overlay map, a file
\* at that path with the overlay's contents; it keeps every file of the chart
\* at its position, changes no file whose path is not in the map, appends one
\* file for each path the chart did not hold, and duplicates no path.
C21_OverlayReplacesOrAppends ==
    [][(pc = "overlay" /\ pc' = "overlaid") =>
        LET before == helmChart.Files
            after == helmChart'.Files
            absent == {path \in DOMAIN overlayFiles : CountAt(before, path) = 0}
        IN  /\ \A path \in DOMAIN overlayFiles :
                   \E k \in 1..Len(after) :
                       after[k] = [Name |-> path, Data |-> overlayFiles[path]]
            /\ Len(after) = Len(before) + Cardinality(absent)
            /\ \A k \in 1..Len(before) :
                   /\ after[k].Name = before[k].Name
                   /\ before[k].Name \notin DOMAIN overlayFiles => after[k] = before[k]
            /\ \A path \in OverlayPaths :
                   CountAt(before, path) <= 1 => CountAt(after, path) <= 1]_vars

\* C21 witness: a chart of three files after an overlay of two paths, one of
\* the files at a path outside the overlay: a file was appended behind kept ones
C21_Witness ==
    /\ pc = "overlaid"
    /\ Cardinality(DOMAIN overlayFiles) = 2
    /\ Len(helmChart.Files) = MaxFiles + 1
    /\ helmChart.Files[1].Name \notin DOMAIN overlayFiles
    /\ helmChart.Files[MaxFiles + 1].Name \in DOMAIN overlayFiles
    /\ helmChart.Files[MaxFiles + 1].Data =
           overlayFiles[helmChart.Files[MaxFiles + 1].Name]

\* ------------------------------------------------- the packages of a vendor
\* C26: the charts loadExistingCharts returns for a package are charts of
\* that package; none is a chart of another package of the vendor.
C26_LoadsOwnChartsOnly ==
    \A packageName \in PackageNames :
        \A k \in 1..Len(existingCharts[packageName]) :
            existingCharts[packageName][k].name = packageName

\* the archives and the unpacked directories of a package
PackagePaths(d, packageName) ==
    [v \in VendorVersions |-> <<d.assets[<<packageName, v>>], d.charts[<<packageName, v>>]>>]

\* C25: in every interleaving of the steps of two packages, a step of one
\* package leaves the archives and the directories of every other package
\* as they are, and loads no chart but its own.
C25_StepsStayInTheirPackage ==
    [][\A packageName \in PackageNames :
           pc'[packageName] # pc[packageName] =>
               /\ \A other \in PackageNames \ {packageName} :
                      PackagePaths(disk', other) = PackagePaths(disk, other)
               /\ \A k \in 1..Len(existingCharts'[packageName]) :
                      existingCharts'[packageName][k].name = packageName]_vars

\* C30: after every sequence of feature add, feature remove and update
\* commands on a repository in which no two packages share a featured
\* value, no two packages carry the same featured value.
C30_FeaturedValuesStayUnshared ==
    \A name, other \in PackageNames : \A v, w \in VendorVersions :
        (name # other
            /\ disk.assets[<<name, v>>].file /\ disk.assets[<<name, v>>].featured.has
            /\ disk.assets[<<other, w>>].file /\ disk.assets[<<other, w>>].featured.has)
        => disk.assets[<<name, v>>].featured.val # disk.assets[<<other, w>>].featured.val

====
